---- MODULE Spec2Model ----
(***************************************************************************)
(* Model of the rpc_service parser of flatbuffers-tools (src/lib.rs):      *)
(* RpcMethod::parse, a pure function of one line, and ParserIter::next,    *)
(* the lazy scanner over an iterator of lines.  Strings are sequences of   *)
(* one-character strings, so that trim, split, strip_prefix and find are   *)
(* computed character by character as the standard library computes them.  *)
(***************************************************************************)
EXTENDS Integers, Sequences, FiniteSets, TLC

VARIABLES
    lines,      \* ParserIter.lines: the whole underlying sequence of lines
    pos,        \* number of lines already pulled from ParserIter.lines
    pc,         \* position of the caller in ParserIter::next
    name,       \* local `name` of the open block
    methods,    \* local `methods` of the open block
    hdr,        \* index in lines of the header line of the open block
    ret,        \* value returned by the last call of ParserIter::next
    yielded,    \* history of the items returned so far, with where they arose
    line,       \* argument of a direct call of RpcMethod::parse
    result      \* result of that direct call

vars == <<lines, pos, pc, name, methods, hdr, ret, yielded, line, result>>

----------------------------------------------------------------------------
(* Bounds *)

\* longest underlying sequence of lines given to the scanner
MaxLines == 4

\* longest line enumerated character by character for RpcMethod::parse
MaxLineLen == 6

----------------------------------------------------------------------------
(* Option and Result values *)

None == [tag |-> "None"]
Some(v) == [tag |-> "Some", val |-> v]
Ok(v) == [tag |-> "Ok", val |-> v]
Err(e) == [tag |-> "Err", val |-> e]

\* ParseError::NoStartingBracket
NoStartingBracket == [kind |-> "NoStartingBracket"]
\* ParseError::NoReturnType(String)
NoReturnType(s) == [kind |-> "NoReturnType", text |-> s]
\* ParseError::InvalidMethodArgs(String)
InvalidMethodArgs(s) == [kind |-> "InvalidMethodArgs", text |-> s]

\* struct RpcMethod
RpcMethod(n, a, r) == [name |-> n, arguments |-> a, return_type |-> r]
\* struct RpcService
RpcService(n, m) == [name |-> n, methods |-> m]

\* the value of `ret` while a call of next is running, and of `result`
\* before parse has been called
Pending == [tag |-> "Pending"]

----------------------------------------------------------------------------
(* str primitives of the standard library, on sequences of characters *)

\* char::is_whitespace, restricted to the characters of the model
IsWhitespace(c) == c \in {" ", "\t"}

\* str::trim_start
RECURSIVE TrimStart(_)
TrimStart(s) ==
    IF s # <<>> /\ IsWhitespace(Head(s)) THEN TrimStart(Tail(s)) ELSE s

\* str::trim_end
RECURSIVE TrimEnd(_)
TrimEnd(s) ==
    IF s # <<>> /\ IsWhitespace(s[Len(s)])
    THEN TrimEnd(SubSeq(s, 1, Len(s) - 1))
    ELSE s

\* str::trim
Trim(s) == TrimEnd(TrimStart(s))

\* str::trim_end_matches(c): removes every trailing repetition of c
RECURSIVE TrimEndMatches(_, _)
TrimEndMatches(s, c) ==
    IF s # <<>> /\ s[Len(s)] = c
    THEN TrimEndMatches(SubSeq(s, 1, Len(s) - 1), c)
    ELSE s

\* str::find(c): the 0-based index of the first c
Find(s, c) ==
    IF \E i \in 1..Len(s) : s[i] = c
    THEN Some((CHOOSE i \in 1..Len(s) :
                  s[i] = c /\ \A j \in 1..(i - 1) : s[j] # c) - 1)
    ELSE None

\* str::split(c), collected: the pieces between the occurrences of c
RECURSIVE Split(_, _)
Split(s, c) ==
    LET at == Find(s, c)
    IN  IF at = None
        THEN <<s>>
        ELSE <<SubSeq(s, 1, at.val)>> \o Split(SubSeq(s, at.val + 2, Len(s)), c)

\* str::strip_prefix(p)
StripPrefix(s, p) ==
    IF Len(s) >= Len(p) /\ SubSeq(s, 1, Len(p)) = p
    THEN Some(SubSeq(s, Len(p) + 1, Len(s)))
    ELSE None

\* str::strip_suffix(c) for a one-character suffix
StripSuffix(s, c) ==
    IF s # <<>> /\ s[Len(s)] = c
    THEN Some(SubSeq(s, 1, Len(s) - 1))
    ELSE None

----------------------------------------------------------------------------
(* RpcMethod::parse *)

\* ReturnType with one trailing ';' stripped
ReturnTypeStripOne(parts) ==
    IF StripSuffix(Trim(parts[2]), ";") = None
    THEN Trim(parts[2])
    ELSE StripSuffix(Trim(parts[2]), ";").val

\* line 37: the return type of the text after the first ':'
ReturnType(parts) == TrimEndMatches(Trim(parts[2]), ";")

\* Arguments with every argument trimmed
ArgumentsTrimmed(args) ==
    [i \in 1..Len(Split(args, ",")) |-> Trim(Split(args, ",")[i])]

\* line 51: args.split(',').map(str::to_owned).collect()
Arguments(args) == Split(args, ",")

\* lines 40-57: the name and the arguments out of method_args
ParseMethodArgs(method_args, return_type) ==
    LET nparts == Split(method_args, "(")
        mname == Trim(nparts[1])
    IN  IF Len(nparts) < 2
        THEN Err(InvalidMethodArgs(method_args))
        ELSE
          LET args == StripSuffix(Trim(nparts[2]), ")")
          IN  IF args = None
              THEN Err(InvalidMethodArgs(method_args))
              ELSE Ok(RpcMethod(mname, Arguments(args.val), return_type))

\* Parse that trims method_args before it goes on
ParseTrimmedArgs(l) ==
    LET parts == Split(l, ":")
    IN  IF Len(parts) < 2
        THEN Err(NoReturnType(l))
        ELSE ParseMethodArgs(Trim(parts[1]), ReturnType(parts))

\* Parse that looks for the '(' before it looks for the ':'
ParseArgsFirst(l) ==
    LET parts == Split(l, ":")
    IN  IF Len(Split(parts[1], "(")) < 2
        THEN Err(InvalidMethodArgs(parts[1]))
        ELSE IF Len(parts) < 2
        THEN Err(NoReturnType(l))
        ELSE ParseMethodArgs(parts[1], ReturnType(parts))

\* lines 33-39, then ParseMethodArgs
Parse(l) ==
    LET parts == Split(l, ":")
    IN  IF Len(parts) < 2
        THEN Err(NoReturnType(l))
        ELSE ParseMethodArgs(parts[1], ReturnType(parts))

----------------------------------------------------------------------------
(* The lines the scanner is run on *)

\* "rpc_service"
RpcServicePrefix ==
    <<"r", "p", "c", "_", "s", "e", "r", "v", "i", "c", "e">>

\* "rpc_service Foo {"
LHeaderFoo ==
    <<"r", "p", "c", "_", "s", "e", "r", "v", "i", "c", "e", " ", "F", "o", "o", " ", "{">>
\* "  rpc_service Bar{ "
LHeaderBar ==
    <<" ", " ", "r", "p", "c", "_", "s", "e", "r", "v", "i", "c", "e", " ", "B", "a", "r", "{", " ">>
\* "rpc_service Baz"
LHeaderNoBracket ==
    <<"r", "p", "c", "_", "s", "e", "r", "v", "i", "c", "e", " ", "B", "a", "z">>
\* "bar(): int;"
LMethodBar ==
    <<"b", "a", "r", "(", ")", ":", " ", "i", "n", "t", ";">>
\* " add(a, b): T;"
LMethodAdd ==
    <<" ", "a", "d", "d", "(", "a", ",", " ", "b", ")", ":", " ", "T", ";">>
\* "}"
LClose ==
    <<"}">>
\* " } "
LCloseIndented ==
    <<" ", "}", " ">>
\* "table T"
LNoColon ==
    <<"t", "a", "b", "l", "e", " ", "T">>
\* "f(x: T;"
LBadArgs ==
    <<"f", "(", "x", ":", " ", "T", ";">>

\* "};"
LCloseSemi ==
    <<"}", ";">>
\* ""
LBlank ==
    <<>>
\* "rpc_serviceX{"
LHeaderGlued ==
    <<"r", "p", "c", "_", "s", "e", "r", "v", "i", "c", "e", "X", "{">>
\* "Rpc_service Foo {"
LHeaderUpper ==
    <<"R", "p", "c", "_", "s", "e", "r", "v", "i", "c", "e", " ", "F", "o", "o", " ", "{">>
\* "rpc_service One { a(): b; }"
LHeaderOneLine ==
    <<"r", "p", "c", "_", "s", "e", "r", "v", "i", "c", "e", " ", "O", "n", "e", " ", "{", " ", "a", "(", ")", ":", " ", "b", ";", " ", "}">>

\* the lines of the runs of the scanner: headers with and without '{',
\* method lines, closing lines, a line that is none of these, a method line
\* the Method Parser rejects
LinePool ==
    { LHeaderFoo, LHeaderBar, LHeaderNoBracket, LMethodBar, LMethodAdd,
      LClose, LCloseIndented, LNoColon, LBadArgs }

\* the lines of the runs on near misses of headers and of closing lines
VariantPool ==
    { LHeaderFoo, LHeaderNoBracket, LMethodBar, LClose, LCloseSemi, LBlank,
      LHeaderGlued, LHeaderUpper, LHeaderOneLine }

\* the lines of the runs checked for termination
FairPool == {LHeaderFoo, LHeaderNoBracket, LMethodBar, LClose, LNoColon}

\* every sequence of at most n elements of S
SeqsUpTo(S, n) == UNION { [1..k -> S] : k \in 0..n }

\* the characters of the lines enumerated for RpcMethod::parse
ParseAlphabet == {"a", " ", "(", ")", ":", ";", ","}

----------------------------------------------------------------------------
(* ParserIter::next *)

\* the line the next self.lines.next() returns, trimmed
NextLine == Trim(lines[pos + 1])

\* line.strip_prefix("rpc_service") of the next line
AfterPrefix == StripPrefix(NextLine, RpcServicePrefix)

\* RpcMethod::parse(method) for the trimmed lines of the pool, computed once
ParseMethod ==
    [method \in {Trim(l) : l \in LinePool \cup VariantPool} |-> Parse(method)]

\* return Some(item)
Return(item) ==
    /\ ret' = Some(item)
    /\ yielded' = Append(yielded,
                         [item |-> item,
                          hdr |-> IF pc = "inner" THEN hdr ELSE pos + 1,
                          last |-> pos'])
    /\ pc' = "idle"
    /\ name' = <<>>
    /\ methods' = <<>>
    /\ hdr' = 0

\* Call that does not start the loop
CallStuck ==
    /\ pc = "idle"
    /\ UNCHANGED vars

\* the caller calls next()
Call ==
    /\ pc = "idle"
    /\ pc' = "outer"
    /\ ret' = Pending
    /\ UNCHANGED <<lines, pos, name, methods, hdr, yielded, line, result>>

\* outer loop: self.lines.next() is None, next returns None
OuterExhausted ==
    /\ pc = "outer"
    /\ pos = Len(lines)
    /\ ret' = None
    /\ pc' = "idle"
    /\ UNCHANGED <<lines, pos, name, methods, hdr, yielded, line, result>>

\* OuterSkip that ends the scan on a line it does not know
OuterSkipStop ==
    /\ pc = "outer"
    /\ pos < Len(lines)
    /\ AfterPrefix = None
    /\ pos' = pos + 1
    /\ ret' = None
    /\ pc' = "idle"
    /\ UNCHANGED <<lines, name, methods, hdr, yielded, line, result>>

\* outer loop: the line has not the prefix, continue
OuterSkip ==
    /\ pc = "outer"
    /\ pos < Len(lines)
    /\ AfterPrefix = None
    /\ pos' = pos + 1
    /\ UNCHANGED <<lines, pc, name, methods, hdr, ret, yielded, line, result>>

\* OuterNoBracket that opens the block all the same
OuterNoBracketOpen ==
    /\ pc = "outer"
    /\ pos < Len(lines)
    /\ AfterPrefix # None
    /\ Find(AfterPrefix.val, "{") = None
    /\ pos' = pos + 1
    /\ name' = Trim(AfterPrefix.val)
    /\ methods' = <<>>
    /\ hdr' = pos + 1
    /\ pc' = "inner"
    /\ UNCHANGED <<lines, ret, yielded, line, result>>

\* OuterNoBracket that gives up the rest of the input
OuterNoBracketFused ==
    /\ pc = "outer"
    /\ pos < Len(lines)
    /\ AfterPrefix # None
    /\ Find(AfterPrefix.val, "{") = None
    /\ pos' = Len(lines)
    /\ ret' = Some(Err(NoStartingBracket))
    /\ yielded' = Append(yielded,
                         [item |-> Err(NoStartingBracket),
                          hdr |-> pos + 1, last |-> pos + 1])
    /\ pc' = "idle"
    /\ UNCHANGED <<lines, name, methods, hdr, line, result>>

\* outer loop: the line has the prefix and no '{'
OuterNoBracket ==
    /\ pc = "outer"
    /\ pos < Len(lines)
    /\ AfterPrefix # None
    /\ Find(AfterPrefix.val, "{") = None
    /\ pos' = pos + 1
    /\ Return(Err(NoStartingBracket))
    /\ UNCHANGED <<lines, line, result>>

\* OuterHeader that ends the block on a '}' of the header line
OuterHeaderInline ==
    /\ pc = "outer"
    /\ pos < Len(lines)
    /\ AfterPrefix # None
    /\ Find(AfterPrefix.val, "{") # None
    /\ pos' = pos + 1
    /\ IF Find(AfterPrefix.val, "}") # None
       THEN /\ Return(Ok(RpcService(
                   Trim(SubSeq(AfterPrefix.val, 1, Find(AfterPrefix.val, "{").val)),
                   <<>>)))
            /\ UNCHANGED <<lines, line, result>>
       ELSE /\ name' = Trim(SubSeq(AfterPrefix.val, 1,
                                   Find(AfterPrefix.val, "{").val))
            /\ methods' = <<>>
            /\ hdr' = pos + 1
            /\ pc' = "inner"
            /\ UNCHANGED <<lines, ret, yielded, line, result>>

\* outer loop: the line has the prefix and a '{', the block is opened
OuterHeader ==
    /\ pc = "outer"
    /\ pos < Len(lines)
    /\ AfterPrefix # None
    /\ Find(AfterPrefix.val, "{") # None
    /\ pos' = pos + 1
    /\ name' = Trim(SubSeq(AfterPrefix.val, 1, Find(AfterPrefix.val, "{").val))
    /\ methods' = <<>>
    /\ hdr' = pos + 1
    /\ pc' = "inner"
    /\ UNCHANGED <<lines, ret, yielded, line, result>>

\* InnerExhausted that drops the open block
InnerExhaustedNone ==
    /\ pc = "inner"
    /\ pos = Len(lines)
    /\ ret' = None
    /\ pc' = "idle"
    /\ name' = <<>>
    /\ methods' = <<>>
    /\ hdr' = 0
    /\ UNCHANGED <<lines, pos, yielded, line, result>>

\* InnerExhausted that reports the block as unterminated
InnerExhaustedErr ==
    /\ pc = "inner"
    /\ pos = Len(lines)
    /\ pos' = pos
    /\ Return(Err([kind |-> "UnterminatedBlock"]))
    /\ UNCHANGED <<lines, line, result>>

\* inner loop: self.lines.next() is None, the loop ends
InnerExhausted ==
    /\ pc = "inner"
    /\ pos = Len(lines)
    /\ pos' = pos
    /\ Return(Ok(RpcService(name, methods)))
    /\ UNCHANGED <<lines, line, result>>

\* InnerClose that takes every line beginning with '}' as the end
InnerCloseLoose ==
    /\ pc = "inner"
    /\ pos < Len(lines)
    /\ NextLine # <<>>
    /\ NextLine[1] = "}"
    /\ pos' = pos + 1
    /\ Return(Ok(RpcService(name, methods)))
    /\ UNCHANGED <<lines, line, result>>

\* InnerClose that looks one line ahead of the "}"
InnerClosePeek ==
    /\ pc = "inner"
    /\ pos < Len(lines)
    /\ NextLine = <<"}">>
    /\ pos' = IF pos + 2 <= Len(lines) THEN pos + 2 ELSE pos + 1
    /\ Return(Ok(RpcService(name, methods)))
    /\ UNCHANGED <<lines, line, result>>

\* inner loop: the line is "}", break
InnerClose ==
    /\ pc = "inner"
    /\ pos < Len(lines)
    /\ NextLine = <<"}">>
    /\ pos' = pos + 1
    /\ Return(Ok(RpcService(name, methods)))
    /\ UNCHANGED <<lines, line, result>>

\* InnerMethod with the method put in front of the earlier ones
InnerMethodFront ==
    /\ pc = "inner"
    /\ pos < Len(lines)
    /\ NextLine # <<"}">>
    /\ ParseMethod[NextLine].tag = "Ok"
    /\ pos' = pos + 1
    /\ methods' = <<ParseMethod[NextLine].val>> \o methods
    /\ UNCHANGED <<lines, pc, name, hdr, ret, yielded, line, result>>

\* inner loop: the line parses, methods.push(method)
InnerMethod ==
    /\ pc = "inner"
    /\ pos < Len(lines)
    /\ NextLine # <<"}">>
    /\ ParseMethod[NextLine].tag = "Ok"
    /\ pos' = pos + 1
    /\ methods' = Append(methods, ParseMethod[NextLine].val)
    /\ UNCHANGED <<lines, pc, name, hdr, ret, yielded, line, result>>

\* InnerErr that ends the block in front of a line with the prefix and
\* leaves that line to the next call
InnerErrReopen ==
    /\ pc = "inner"
    /\ pos < Len(lines)
    /\ NextLine # <<"}">>
    /\ ParseMethod[NextLine].tag = "Err"
    /\ IF AfterPrefix # None
       THEN /\ pos' = pos
            /\ Return(Ok(RpcService(name, methods)))
       ELSE /\ pos' = pos + 1
            /\ Return(Err(ParseMethod[NextLine].val))
    /\ UNCHANGED <<lines, line, result>>

\* InnerErr that drops the line and goes on with the block
InnerErrSkip ==
    /\ pc = "inner"
    /\ pos < Len(lines)
    /\ NextLine # <<"}">>
    /\ ParseMethod[NextLine].tag = "Err"
    /\ pos' = pos + 1
    /\ UNCHANGED <<lines, pc, name, methods, hdr, ret, yielded, line, result>>

\* inner loop: the line does not parse, return Some(Err(error))
InnerErr ==
    /\ pc = "inner"
    /\ pos < Len(lines)
    /\ NextLine # <<"}">>
    /\ ParseMethod[NextLine].tag = "Err"
    /\ pos' = pos + 1
    /\ Return(Err(ParseMethod[NextLine].val))
    /\ UNCHANGED <<lines, line, result>>

\* ParserIter::new(lines) on lines of pool, and no direct call of parse
InitOn(pool) ==
    /\ lines \in SeqsUpTo(pool, MaxLines)
    /\ pos = 0
    /\ pc = "idle"
    /\ name = <<>>
    /\ methods = <<>>
    /\ hdr = 0
    /\ ret = Pending
    /\ yielded = <<>>
    /\ line = <<>>
    /\ result = Pending

Init == InitOn(LinePool)

Next ==
    \/ Call
    \/ OuterExhausted
    \/ OuterSkip
    \/ OuterNoBracket
    \/ OuterHeader
    \/ InnerExhausted
    \/ InnerClose
    \/ InnerMethod
    \/ InnerErr

Spec == Init /\ [][Next]_vars

\* the same scanner on the lines of VariantPool
InitVariants == InitOn(VariantPool)

SpecVariants == InitVariants /\ [][Next]_vars

InitFair == InitOn(FairPool)

\* the caller goes on calling next, and a running call goes on
FairSpec == InitFair /\ [][Next]_vars /\ WF_vars(Next)

----------------------------------------------------------------------------
(* ParserIter::new(ls).collect(): every item of a whole run over ls *)

RECURSIVE ScanOuter(_, _), ScanInner(_, _, _, _)

\* the items of the calls of next from the outer loop at position p
ScanOuter(ls, p) ==
    IF p = Len(ls)
    THEN <<>>
    ELSE
      LET after == StripPrefix(Trim(ls[p + 1]), RpcServicePrefix)
      IN  IF after = None
          THEN ScanOuter(ls, p + 1)
          ELSE IF Find(after.val, "{") = None
          THEN <<Err(NoStartingBracket)>> \o ScanOuter(ls, p + 1)
          ELSE ScanInner(ls, p + 1,
                         Trim(SubSeq(after.val, 1, Find(after.val, "{").val)),
                         <<>>)

\* the items from the inner loop at position p, block n with methods ms
ScanInner(ls, p, n, ms) ==
    IF p = Len(ls)
    THEN <<Ok(RpcService(n, ms))>>
    ELSE
      LET method == Trim(ls[p + 1])
      IN  IF method = <<"}">>
          THEN <<Ok(RpcService(n, ms))>> \o ScanOuter(ls, p + 1)
          ELSE IF Parse(method).tag = "Ok"
          THEN ScanInner(ls, p + 1, n, Append(ms, Parse(method).val))
          ELSE <<Err(Parse(method).val)>> \o ScanOuter(ls, p + 1)

ScanAll(ls) == ScanOuter(ls, 0)

----------------------------------------------------------------------------
(* RpcMethod::parse called directly on one line *)

\* the scanner is left alone, the line is any line over ParseAlphabet
InitParse ==
    /\ lines = <<>>
    /\ pos = 0
    /\ pc = "idle"
    /\ name = <<>>
    /\ methods = <<>>
    /\ hdr = 0
    /\ ret = Pending
    /\ yielded = <<>>
    /\ line \in SeqsUpTo(ParseAlphabet, MaxLineLen) \cup LinePool \cup VariantPool
    /\ result = Pending

\* result = RpcMethod::parse(line)
ParseLine ==
    /\ result = Pending
    /\ result' = Parse(line)
    /\ UNCHANGED <<lines, pos, pc, name, methods, hdr, ret, yielded, line>>

NextParse == ParseLine

SpecParse == InitParse /\ [][NextParse]_vars

----------------------------------------------------------------------------
TypeOK ==
    /\ pos \in 0..Len(lines)
    /\ pc \in {"idle", "outer", "inner"}
    /\ ret.tag \in {"Pending", "None", "Some"}

----------------------------------------------------------------------------
(* Vocabulary of the properties, stated on the text of the lines *)

Min(S) == CHOOSE x \in S : \A y \in S : x <= y
Max(S) == CHOOSE x \in S : \A y \in S : x >= y

\* the positions of character c in s
Positions(s, c) == {k \in 1..Len(s) : s[k] = c}

\* the items returned so far
Items == [i \in 1..Len(yielded) |-> yielded[i].item]

\* the trimmed text of l begins with rpc_service
HasPrefix(l) ==
    LET t == Trim(l)
    IN  /\ Len(t) >= Len(RpcServicePrefix)
        /\ \A i \in 1..Len(RpcServicePrefix) : t[i] = RpcServicePrefix[i]

\* l is a header line with its opening bracket
IsHeader(l) == HasPrefix(l) /\ Positions(l, "{") # {}

\* l is a header line without opening bracket
IsHeaderNoBracket(l) == HasPrefix(l) /\ Positions(l, "{") = {}

\* l is a closing line
IsClose(l) == Trim(l) = <<"}">>

\* the text of header l between rpc_service and the first '{', trimmed
HeaderName(l) ==
    LET t == Trim(l)
    IN  Trim(SubSeq(t, Len(RpcServicePrefix) + 1, Min(Positions(t, "{")) - 1))

\* the Method Parser accepts line l of a block
Accepted(l) == Parse(Trim(l)).tag = "Ok"

\* l has the shape name(args): T; where name and args hold no '(' and no
\* ':', and T holds no ':', does not end with ';' and is followed at once
\* by the final ';'
WellFormedMethod(l) ==
    /\ Positions(l, ":") # {}
    /\ Positions(l, "(") # {}
    /\ LET c == Min(Positions(l, ":"))
           i == Min(Positions(l, "("))
           solid == {k \in 1..(c - 1) : ~IsWhitespace(l[k])}
           r == SubSeq(l, c + 1, Len(l) - 1)
       IN  /\ i < c
           /\ Max(solid) > i
           /\ l[Max(solid)] = ")"
           /\ \A k \in (i + 1)..(c - 1) : l[k] # "("
           /\ Len(l) > c
           /\ l[Len(l)] = ";"
           /\ Positions(r, ":") = {}
           /\ TrimEnd(r) = r
           /\ (r = <<>> \/ r[Len(r)] # ";")

\* the three parts of a well-formed method line
WFName(l) == SubSeq(l, 1, Min(Positions(l, "(")) - 1)
WFArgs(l) ==
    LET c == Min(Positions(l, ":"))
    IN  SubSeq(l, Min(Positions(l, "(")) + 1,
               Max({k \in 1..(c - 1) : ~IsWhitespace(l[k])}) - 1)
WFType(l) == Trim(SubSeq(l, Min(Positions(l, ":")) + 1, Len(l) - 1))

----------------------------------------------------------------------------
(* C1 *)

\* lines is: lines without the prefix, a header with '{' at h, well-formed
\* method lines, a closing line
OneBlockInput(h) ==
    /\ h \in 1..(Len(lines) - 1)
    /\ \A i \in 1..(h - 1) : ~HasPrefix(lines[i])
    /\ IsHeader(lines[h])
    /\ \A i \in (h + 1)..(Len(lines) - 1) : WellFormedMethod(Trim(lines[i]))
    /\ IsClose(lines[Len(lines)])

\* the service the block at h..Len(lines) describes
OneBlockService(h) ==
    RpcService(HeaderName(lines[h]),
               [k \in 1..(Len(lines) - 1 - h) |-> Parse(Trim(lines[h + k])).val])

\* C1: on an input made of non-header lines, a header `rpc_service N {`,
\* k >= 0 well-formed method lines and a closing line, the scanner yields
\* exactly one item: Ok(Service) with the trimmed name N and the k parsed
\* methods in source order.
C1_OneBlockOneService ==
    \A h \in 1..Len(lines) :
        OneBlockInput(h) =>
            /\ Len(yielded) <= 1
            /\ \A i \in 1..Len(yielded) : Items[i] = Ok(OneBlockService(h))
            /\ ret = None => Len(yielded) = 1

C1_Witness ==
    /\ OneBlockInput(1)
    /\ Len(lines) = 4
    /\ lines[2] # lines[3]
    /\ ret = None
    /\ Items = <<Ok(OneBlockService(1))>>

----------------------------------------------------------------------------
(* C2 *)

\* the closing lines after line h
CloseAfter(h) == {e \in (h + 1)..Len(lines) : IsClose(lines[e])}

\* the last line of the block opened at h: its closing line, or the last
\* line of the input when the block is not closed
BlockEnd(h) ==
    IF CloseAfter(h) = {} THEN Len(lines) ELSE Min(CloseAfter(h))

\* the inner lines of the block opened at h that the Method Parser rejects
Rejected(h) ==
    {k \in (h + 1)..BlockEnd(h) : ~IsClose(lines[k]) /\ ~Accepted(lines[k])}

\* item i is the error of a method line of a block that has its closing line
FailedBlock(i) ==
    /\ yielded[i].item.tag = "Err"
    /\ yielded[i].hdr < yielded[i].last
    /\ CloseAfter(yielded[i].hdr) # {}

\* no item other than item i arises from the lines of the block of item i
OnlyItemOfBlock(i) ==
    \A j \in 1..Len(yielded) :
        j # i => yielded[j].hdr \notin
                     yielded[i].hdr..BlockEnd(yielded[i].hdr)

\* the first line with the prefix, which the outer search reaches
FirstPrefix == Min({k \in 1..Len(lines) : HasPrefix(lines[k])})

\* the item of a block with a rejected line is the error of its first
\* rejected line, and the first block of the input yields it
FailedBlockYieldsErr ==
    /\ \A i \in 1..Len(yielded) :
           LET y == yielded[i]
           IN  (IsHeader(lines[y.hdr]) /\ Rejected(y.hdr) # {}) =>
                   /\ y.last = Min(Rejected(y.hdr))
                   /\ y.item = Err(Parse(Trim(lines[y.last])).val)
    /\ (/\ ret = None
        /\ \E k \in 1..Len(lines) : HasPrefix(lines[k])
        /\ IsHeader(lines[FirstPrefix])
        /\ Rejected(FirstPrefix) # {})
       => (/\ Len(yielded) >= 1
           /\ yielded[1].hdr = FirstPrefix
           /\ yielded[1].item.tag = "Err")

\* C2 as stated: a block with a rejected method line yields exactly one Err
\* and no Ok(Service), and the lines of the block after the failing line
\* produce no further item.
C2_Original ==
    /\ FailedBlockYieldsErr
    /\ \A i \in 1..Len(yielded) : FailedBlock(i) => OnlyItemOfBlock(i)

\* the lines of the block of item i after the failing line do not have the
\* prefix
NoPrefixInRest(i) ==
    \A k \in (yielded[i].last + 1)..BlockEnd(yielded[i].hdr) :
        ~HasPrefix(lines[k])

\* C2 amended: a block with a rejected method line yields exactly one Err
\* and no Ok(Service); the lines of the block after the failing line produce
\* no further item provided none of them has the prefix rpc_service after
\* trimming (the resumed outer search takes such a line as a header).
C2_FailedBlockOneErr ==
    /\ FailedBlockYieldsErr
    /\ \A i \in 1..Len(yielded) :
           (FailedBlock(i) /\ NoPrefixInRest(i)) => OnlyItemOfBlock(i)

C2_Witness ==
    /\ Len(lines) = 4
    /\ IsHeader(lines[1])
    /\ ~Accepted(lines[2])
    /\ WellFormedMethod(Trim(lines[3]))
    /\ IsClose(lines[4])
    /\ ret = None
    /\ Len(yielded) = 1
    /\ yielded[1].item = Err(Parse(Trim(lines[2])).val)

----------------------------------------------------------------------------
(* C3 *)

\* every item arises from a line with the prefix, and the item of a header
\* without '{' is Err(NoStartingBracket), decided on that very line
NoBracketItems ==
    \A i \in 1..Len(yielded) :
        LET y == yielded[i]
        IN  /\ HasPrefix(lines[y.hdr])
            /\ IsHeaderNoBracket(lines[y.hdr]) =>
                   /\ y.item = Err(NoStartingBracket)
                   /\ y.last = y.hdr

\* the step of the outer search on a header without '{' returns the error
\* and pulls that line only
NoBracketStep ==
    (pc = "outer" /\ pos < Len(lines) /\ IsHeaderNoBracket(lines[pos + 1]))
        => (/\ ret' = Some(Err(NoStartingBracket))
            /\ pos' = pos + 1
            /\ pc' = "idle")

\* C3: when the outer search consumes a line with the prefix and no '{', the
\* advance yields Err(NoStartingBracket) at once without pulling a further
\* line, no Service is yielded for that header, and the following lines
\* without the prefix produce no item.
C3_NoBracketImmediate == []NoBracketItems /\ [][NoBracketStep]_vars

C3_Witness ==
    /\ Len(lines) = 3
    /\ IsHeaderNoBracket(lines[1])
    /\ WellFormedMethod(Trim(lines[2]))
    /\ IsClose(lines[3])
    /\ ret = None
    /\ yielded = <<[item |-> Err(NoStartingBracket), hdr |-> 1, last |-> 1]>>

----------------------------------------------------------------------------
(* C4 *)

\* lines h..e are a well-formed block: a header with '{', accepted method
\* lines, the closing line
GoodBlock(h, e) ==
    /\ h < e
    /\ IsHeader(lines[h])
    /\ IsClose(lines[e])
    /\ \A k \in (h + 1)..(e - 1) : ~IsClose(lines[k]) /\ Accepted(lines[k])

\* the service of the well-formed block h..e
GoodBlockService(h, e) ==
    RpcService(HeaderName(lines[h]),
               [k \in 1..(e - 1 - h) |-> Parse(Trim(lines[h + k])).val])

\* C4: an Err does not end the scan: when a well-formed block h..e follows
\* the line that decided an Err, with only lines without the prefix in
\* between, then once the scanner has gone past e it has yielded
\* Ok(Service) for h..e with all its methods.
C4_ErrDoesNotEndScan ==
    \A i \in 1..Len(yielded) : \A h, e \in 1..Len(lines) :
        (/\ yielded[i].item.tag = "Err"
         /\ h > yielded[i].last
         /\ \A k \in (yielded[i].last + 1)..(h - 1) : ~HasPrefix(lines[k])
         /\ GoodBlock(h, e)
         /\ pc = "idle"
         /\ pos >= e)
        => \E j \in (i + 1)..Len(yielded) :
               yielded[j] = [item |-> Ok(GoodBlockService(h, e)),
                             hdr |-> h, last |-> e]

C4_Witness ==
    /\ ret = None
    /\ Len(yielded) = 2
    /\ yielded[1].item.tag = "Err"
    /\ yielded[2].item.tag = "Ok"
    /\ Len(yielded[2].item.val.methods) >= 1
    /\ GoodBlock(yielded[2].hdr, yielded[2].last)

----------------------------------------------------------------------------
(* C5 *)

\* the errors among the items returned so far
ErrItems == SelectSeq(Items, LAMBDA x : x.tag = "Err")

\* every error is the error of one line: a header without '{', or a method
\* line the Method Parser rejects
ErrorsAreLineErrors ==
    \A i \in 1..Len(yielded) :
        LET y == yielded[i]
        IN  y.item.tag = "Err" =>
                \/ y.item.val = NoStartingBracket /\ y.last = y.hdr
                \/ /\ y.hdr < y.last
                   /\ ~Accepted(lines[y.last])
                   /\ y.item.val = Parse(Trim(lines[y.last])).val

\* the step taken when the input ends inside an open block ends the call
\* and adds no error
ExhaustedInBlockStep ==
    (pc = "inner" /\ pos = Len(lines))
        => (/\ pc' = "idle"
            /\ pos' = pos
            /\ ret' # Pending
            /\ ~(ret'.tag = "Some" /\ ret'.val.tag = "Err")
            /\ ErrItems' = ErrItems)

\* C5: when the input ends inside an open block the scan of the block
\* stops and the advance raises no error item for the unterminated block.
C5_UnterminatedNoError == []ErrorsAreLineErrors /\ [][ExhaustedInBlockStep]_vars

C5_Witness ==
    /\ pc = "idle"
    /\ Len(yielded) >= 1
    /\ LET y == yielded[Len(yielded)]
       IN  /\ IsHeader(lines[y.hdr])
           /\ CloseAfter(y.hdr) = {}
           /\ y.hdr < Len(lines)
           /\ y.last = Len(lines)
           /\ y.item.tag = "Ok"

----------------------------------------------------------------------------
(* C6 *)

\* line k has not the prefix and no item arose from it
Outside(k) ==
    /\ ~HasPrefix(lines[k])
    /\ \A i \in 1..Len(yielded) : ~(yielded[i].hdr <= k /\ k <= yielded[i].last)

\* item y is a block that the end of the input left open
OpenEnded(y) ==
    /\ y.item.tag = "Ok"
    /\ y.last = y.hdr \/ ~IsClose(lines[y.last])

\* a line can be put after line k without falling into a block
Between(k) ==
    \A i \in 1..Len(yielded) :
        ~(/\ yielded[i].hdr <= k
          /\ k < yielded[i].last \/ OpenEnded(yielded[i]))

RemoveAt(s, k) == SubSeq(s, 1, k - 1) \o SubSeq(s, k + 1, Len(s))
InsertAt(s, k, l) == SubSeq(s, 1, k) \o <<l>> \o SubSeq(s, k + 1, Len(s))

\* the lines inserted: a line that is no method, a method line, a closing
\* line (a removed line is any line of the pool)
InsertedLines == {LNoColon, LMethodBar, LClose}

\* C6: lines outside every block without the prefix produce no item:
\* removing one, or inserting one before, between or after the blocks,
\* leaves the items of the whole scan unchanged, and an input without any
\* line with the prefix yields no item.
C6_SkippedLinesNoEffect ==
    /\ (\A k \in 1..Len(lines) : ~HasPrefix(lines[k])) => yielded = <<>>
    /\ ret = None =>
          /\ Items = ScanAll(lines)
          /\ \A k \in 1..Len(lines) :
                 Outside(k) => ScanAll(RemoveAt(lines, k)) = Items
          /\ \A k \in 0..Len(lines) : \A l \in InsertedLines :
                 (Between(k) /\ ~HasPrefix(l)) =>
                     ScanAll(InsertAt(lines, k, l)) = Items

C6_Witness ==
    /\ ret = None
    /\ Len(yielded) = 2
    /\ \E k \in 1..Len(lines) :
           Outside(k) /\ yielded[1].last < k /\ k < yielded[2].hdr

----------------------------------------------------------------------------
(* C7 *)

\* the line at y.last is the one that decided item y
Decided(y) ==
    \/ y.item.tag = "Ok" /\ y.hdr < y.last /\ IsClose(lines[y.last])
    \/ y.item.tag = "Ok" /\ y.last = Len(lines)
    \/ /\ y.item = Err(NoStartingBracket)
       /\ y.last = y.hdr
       /\ IsHeaderNoBracket(lines[y.hdr])
    \/ /\ y.item.tag = "Err"
       /\ y.hdr < y.last
       /\ ~Accepted(lines[y.last])

\* the items arose from disjoint ranges of lines in increasing order, each
\* ending at the line that decided the item, and a call that returned an
\* item left the position at that line
SinglePass ==
    /\ pos <= Len(lines)
    /\ \A i \in 1..Len(yielded) :
           /\ 1 <= yielded[i].hdr
           /\ yielded[i].hdr <= yielded[i].last
           /\ yielded[i].last <= pos
           /\ i > 1 => yielded[i - 1].last < yielded[i].hdr
           /\ Decided(yielded[i])
    /\ (pc = "idle" /\ ret.tag = "Some") => pos = yielded[Len(yielded)].last

\* C7: the scanner is single-pass and lazy: it pulls the lines in order, one
\* per step and never more than were supplied, and an advance that yields
\* an item has pulled no line beyond the one that decided the item.
C7_SinglePassLazy == []SinglePass /\ [][pos' \in {pos, pos + 1}]_vars

C7_Witness ==
    /\ pc = "idle"
    /\ ret.tag = "Some"
    /\ Len(yielded) = 2
    /\ pos = yielded[2].last
    /\ pos < Len(lines)
    /\ yielded[1].item.tag = "Ok"
    /\ yielded[2].item.tag = "Err"

----------------------------------------------------------------------------
(* C8 *)

\* the lines with the prefix
PrefixLines == {k \in 1..Len(lines) : HasPrefix(lines[k])}

\* C8: every call of next returns, the repeated calls reach None, and there
\* is at most one item per line with the prefix.
C8_Terminates ==
    /\ []<>(pc = "idle")
    /\ <>(ret = None)
    /\ [](Len(yielded) <= Cardinality(PrefixLines))

C8_Witness ==
    /\ ret = None
    /\ Len(lines) = 4
    /\ Len(yielded) = Cardinality(PrefixLines)
    /\ Len(yielded) = 2

----------------------------------------------------------------------------
(* C9 *)

\* the pieces joined by ','
RECURSIVE Join(_)
Join(pieces) ==
    IF Len(pieces) = 1
    THEN pieces[1]
    ELSE pieces[1] \o <<",">> \o Join(Tail(pieces))

\* the Method of a well-formed line apart from the pieces of its args
WellFormedResult ==
    /\ result.tag = "Ok"
    /\ result.val.name = Trim(WFName(line))
    /\ result.val.return_type = WFType(line)
    /\ Len(result.val.arguments) >= 1
    /\ \A i \in 1..Len(result.val.arguments) :
           Positions(result.val.arguments[i], ",") = {}
    /\ WFArgs(line) = <<>> => result.val.arguments = << <<>> >>
    /\ WFArgs(line) = <<"a", ",", " ", "b">> =>
           result.val.arguments = << <<"a">>, <<" ", "b">> >>

\* C9 as stated: for a well-formed method line name(args): T; parse returns
\* the Method with the trimmed name, the return type T and exactly the
\* pieces of the text between '(' and the final ')' split on ',', verbatim:
\* at least one piece, [""] for (), and ["a", " b"] for (a, b).
C9_Original ==
    (result # Pending /\ WellFormedMethod(line)) =>
        /\ WellFormedResult
        /\ Join(result.val.arguments) = WFArgs(line)

\* C9 amended: as stated, but the pieces are those of the text between '('
\* and the final ')' without its leading whitespace: the text after '(' is
\* trimmed before the ')' is stripped, so the first argument loses its
\* leading whitespace and nothing else is trimmed.
C9_WellFormedMethod ==
    (result # Pending /\ WellFormedMethod(line)) =>
        /\ WellFormedResult
        /\ Join(result.val.arguments) = TrimStart(WFArgs(line))

C9_Witness ==
    /\ line = LMethodAdd
    /\ WellFormedMethod(line)
    /\ result = Ok(RpcMethod(<<"a", "d", "d">>,
                             << <<"a">>, <<" ", "b">> >>, <<"T">>))

----------------------------------------------------------------------------
(* C10 *)

\* C10: for a line without ':' parse fails with NoReturnType carrying the
\* line verbatim, whatever the line holds otherwise.
C10_NoColonNoReturnType ==
    (result # Pending /\ Positions(line, ":") = {}) =>
        result = Err(NoReturnType(line))

C10_Witness ==
    /\ Positions(line, ":") = {}
    /\ Positions(line, "(") = {}
    /\ Len(line) >= 2
    /\ line[1] = " "
    /\ line[Len(line)] = ")"
    /\ result = Err(NoReturnType(line))

----------------------------------------------------------------------------
(* Vocabulary of the properties of RpcMethod::parse *)

\* the text of s before its first c, all of s when it holds no c
Before(s, c) ==
    IF Positions(s, c) = {} THEN s ELSE SubSeq(s, 1, Min(Positions(s, c)) - 1)

\* the whole text of s after its first c
RestAfter(s, c) == SubSeq(s, Min(Positions(s, c)) + 1, Len(s))

\* the text of s between its first c and its second c, or the end of s
Segment(s, c) ==
    LET first == Min(Positions(s, c))
        later == Positions(s, c) \ {first}
    IN  SubSeq(s, first + 1, IF later = {} THEN Len(s) ELSE Min(later) - 1)

\* s ends with c
EndsWith(s, c) == s # <<>> /\ s[Len(s)] = c

\* s without its last character
DropLast(s) == SubSeq(s, 1, Len(s) - 1)

----------------------------------------------------------------------------
(* C11 *)

\* C11 as stated: for every line without '(' parse fails with
\* InvalidMethodArgs carrying the text before ':'.
C11_Original ==
    (result # Pending /\ Positions(line, "(") = {}) =>
        result = Err(InvalidMethodArgs(Before(line, ":")))

\* C11 amended: for every line that holds a ':' and no '(' parse fails with
\* InvalidMethodArgs carrying the text before the first ':' (a line without
\* ':' fails with NoReturnType before the '(' is looked for).
C11_NoParenInvalidArgs ==
    (result # Pending /\ Positions(line, ":") # {} /\ Positions(line, "(") = {})
        => result = Err(InvalidMethodArgs(Before(line, ":")))

C11_Witness ==
    /\ Positions(line, ":") # {}
    /\ Positions(line, "(") = {}
    /\ Len(Before(line, ":")) >= 2
    /\ line[1] = " "
    /\ result = Err(InvalidMethodArgs(Before(line, ":")))

----------------------------------------------------------------------------
(* C12 *)

\* C12: every Method parse returns has a name and a return type that are
\* not empty after trimming.
C12_Original ==
    (result # Pending /\ result.tag = "Ok") =>
        /\ Trim(result.val.name) # <<>>
        /\ Trim(result.val.return_type) # <<>>

----------------------------------------------------------------------------
(* C14 *)

\* the name and the error come from the text before the first ':'
MethodArgsIsLeft ==
    /\ result.tag = "Ok" =>
           result.val.name = Trim(Before(Before(line, ":"), "("))
    /\ result.tag = "Err" =>
           result.val = InvalidMethodArgs(Before(line, ":"))

\* C14 as stated: the return type is the whole text after the first ':',
\* trimmed and without its trailing ';', later ':' included, and
\* method_args is the text before the first ':'.
C14_Original ==
    (result # Pending /\ Positions(line, ":") # {}) =>
        /\ MethodArgsIsLeft
        /\ result.tag = "Ok" =>
               result.val.return_type =
                   TrimEndMatches(Trim(RestAfter(line, ":")), ";")

\* What parse returns where C14 fails: the return type is the text between
\* the first ':' and the second ':' (or the end of the line), trimmed and
\* without its trailing ';': a later ':' and all that follows it are lost.
ReturnTypeIsSegment ==
    (result # Pending /\ Positions(line, ":") # {}) =>
        /\ MethodArgsIsLeft
        /\ result.tag = "Ok" =>
               result.val.return_type =
                   TrimEndMatches(Trim(Segment(line, ":")), ";")

----------------------------------------------------------------------------
(* C15 *)

\* t without one trailing ';'
WithoutOneSemi(t) == IF EndsWith(t, ";") THEN DropLast(t) ELSE t

\* t without any of its trailing ';'
WithoutSemis(t) ==
    SubSeq(t, 1, Max({k \in 0..Len(t) : k = 0 \/ t[k] # ";"}))

\* C15 as stated: the return type is trimmed and one trailing ';' is
\* stripped if present: a text ending in several ';' keeps all but the last.
C15_Original ==
    (result # Pending /\ result.tag = "Ok") =>
        result.val.return_type = WithoutOneSemi(Trim(Segment(line, ":")))

\* C15 amended: the return type is trimmed and then every trailing ';' is
\* stripped (none if absent): a text ending in several ';' loses them all.
C15_AllSemisStripped ==
    (result # Pending /\ result.tag = "Ok") =>
        result.val.return_type = WithoutSemis(Trim(Segment(line, ":")))

C15_Witness ==
    /\ result # Pending
    /\ result.tag = "Ok"
    /\ EndsWith(line, ";")
    /\ EndsWith(DropLast(line), ";")
    /\ result.val.return_type = <<"a">>

----------------------------------------------------------------------------
(* C16 *)

\* parse fails with InvalidMethodArgs(method_args) exactly when args does
\* not end with ')', and otherwise splits args without its last ')'
ArgsDecide(args) ==
    /\ result.tag = "Err" <=> ~EndsWith(args, ")")
    /\ result.tag = "Err" =>
           result.val = InvalidMethodArgs(Before(line, ":"))
    /\ result.tag = "Ok" =>
           /\ Join(result.val.arguments) = DropLast(args)
           /\ \A i \in 1..Len(result.val.arguments) :
                  Positions(result.val.arguments[i], ",") = {}

\* the line holds a ':' and a '(' before it
HasMethodArgs ==
    /\ Positions(line, ":") # {}
    /\ Positions(Before(line, ":"), "(") # {}

\* C16 as stated: args is the whole text of method_args after its first
\* '(', trimmed, later '(' included; parse fails with
\* InvalidMethodArgs(method_args) exactly when args does not end with ')'
\* and otherwise strips exactly one ')' before it splits on ','.
C16_Original ==
    (result # Pending /\ HasMethodArgs) =>
        ArgsDecide(Trim(RestAfter(Before(line, ":"), "(")))

\* What parse does where C16 fails: args is the text of method_args between
\* its first '(' and its second '(' (or its end), trimmed: a later '(' and
\* all that follows it are lost.
ArgsIsSegment ==
    (result # Pending /\ HasMethodArgs) =>
        ArgsDecide(Trim(Segment(Before(line, ":"), "(")))

----------------------------------------------------------------------------
(* C13 *)

\* the characters of a word
WordChars ==
    { "a", "b", "c", "d", "e", "f", "g", "h", "i", "j", "k", "l", "m",
      "n", "o", "p", "q", "r", "s", "t", "u", "v", "w", "x", "y", "z",
      "A", "B", "C", "D", "E", "F", "G", "H", "I", "J", "K", "L", "M",
      "N", "O", "P", "Q", "R", "S", "T", "U", "V", "W", "X", "Y", "Z",
      "0", "1", "2", "3", "4", "5", "6", "7", "8", "9", "_" }

\* the trimmed text of l begins with the word rpc_service: the prefix is
\* not followed by a further character of a word
IsToken(l) ==
    /\ HasPrefix(l)
    /\ Len(Trim(l)) > Len(RpcServicePrefix) =>
           Trim(l)[Len(RpcServicePrefix) + 1] \notin WordChars

\* C13: in the outer search a line is taken as a header exactly when its
\* trimmed text begins with rpc_service as a case-sensitive, exact token;
\* every other line is skipped and produces no item.
C13_Original ==
    [][ (pc = "outer" /\ pos < Len(lines)) =>
            IF IsToken(lines[pos + 1])
            THEN pc' = "inner" \/ yielded' # yielded
            ELSE pc' = "outer" /\ pos' = pos + 1 /\ yielded' = yielded
      ]_vars

\* What the outer search does where C13 fails: a line is taken as a header
\* exactly when its trimmed text begins with the characters rpc_service,
\* whatever follows them.
HeaderIsPrefix ==
    [][ (pc = "outer" /\ pos < Len(lines)) =>
            IF HasPrefix(lines[pos + 1])
            THEN pc' = "inner" \/ yielded' # yielded
            ELSE pc' = "outer" /\ pos' = pos + 1 /\ yielded' = yielded
      ]_vars

----------------------------------------------------------------------------
(* C17 *)

\* C17: an open block is closed only by a line equal to "}" after
\* trimming; every other inner line, a blank line and "};" included, goes
\* to the Method Parser, and the call returns that line's error where the
\* parser rejects it.
C17_OnlyCloseEnds ==
    [][ (pc = "inner" /\ pos < Len(lines)) =>
            LET l == lines[pos + 1]
            IN  /\ pos' = pos + 1
                /\ IsClose(l) => ret' = Some(Ok(RpcService(name, methods)))
                /\ (~IsClose(l) /\ Accepted(l)) =>
                       /\ pc' = "inner"
                       /\ methods' = Append(methods, Parse(Trim(l)).val)
                       /\ yielded' = yielded
                /\ (~IsClose(l) /\ ~Accepted(l)) =>
                       /\ pc' = "idle"
                       /\ ret' = Some(Err(Parse(Trim(l)).val))
                       /\ Len(yielded') = Len(yielded) + 1
                /\ l = LBlank => ret' = Some(Err(NoReturnType(<<>>)))
                /\ l = LCloseSemi =>
                       ret' = Some(Err(NoReturnType(<<"}", ";">>)))
      ]_vars

C17_Witness ==
    /\ \E i \in 1..Len(yielded) :
           /\ yielded[i].item = Err(NoReturnType(<<>>))
           /\ yielded[i].hdr < yielded[i].last
           /\ lines[yielded[i].last] = LBlank
    /\ \E i \in 1..Len(yielded) :
           /\ yielded[i].item = Err(NoReturnType(<<"}", ";">>))
           /\ yielded[i].hdr < yielded[i].last
           /\ lines[yielded[i].last] = LCloseSemi

----------------------------------------------------------------------------
(* C18 *)

\* C18: when the input ends inside an open block whose lines all parsed,
\* next returns Ok(Service) with the name of the block and the methods
\* collected so far, the item a block closed by "}" at that place gives,
\* and the following call returns None.
C18_EndOfInputYieldsService ==
    /\ [][ (pc = "inner" /\ pos = Len(lines)) =>
               /\ \A k \in hdr + 1..pos : Accepted(lines[k])
               /\ ret' = Some(Ok(RpcService(
                            HeaderName(lines[hdr]),
                            [k \in 1..pos - hdr |->
                                 Parse(Trim(lines[hdr + k])).val])))
               /\ Items' = ScanAll(Append(lines, LClose))
               /\ pc' = "idle"
               /\ pos' = Len(lines)
         ]_vars
    /\ [][ (pc = "outer" /\ pos = Len(lines)) =>
               ret' = None /\ yielded' = yielded ]_vars

C18_Witness ==
    /\ ret = None
    /\ pc = "idle"
    /\ yielded # <<>>
    /\ LET y == yielded[Len(yielded)]
       IN  /\ y.item.tag = "Ok"
           /\ y.item.val.methods # <<>>
           /\ y.last = Len(lines)
           /\ y.hdr < y.last
           /\ Accepted(lines[y.last])

----------------------------------------------------------------------------
(* C19 *)

\* C19: while a block is open a line with the prefix rpc_service is a
\* method line like any other: it opens no block, the parser's verdict on
\* it is the outcome (its error, or a method of the open block), and no
\* item is ever returned for it as a header.
C19_NoHeaderInsideBlock ==
    /\ [][ (pc = "inner" /\ pos < Len(lines) /\ HasPrefix(lines[pos + 1])) =>
               LET l == lines[pos + 1]
               IN  /\ pos' = pos + 1
                   /\ Accepted(l) =>
                          /\ pc' = "inner"
                          /\ hdr' = hdr
                          /\ name' = name
                          /\ methods' = Append(methods, Parse(Trim(l)).val)
                          /\ yielded' = yielded
                   /\ ~Accepted(l) =>
                          /\ pc' = "idle"
                          /\ ret' = Some(Err(Parse(Trim(l)).val))
                          /\ yielded' = Append(yielded,
                                 [item |-> Err(Parse(Trim(l)).val),
                                  hdr |-> hdr, last |-> pos + 1])
         ]_vars
    /\ [](\A i \in 1..Len(yielded) :
              \A k \in yielded[i].hdr + 1..yielded[i].last :
                  \A j \in 1..Len(yielded) : yielded[j].hdr # k)

C19_Witness ==
    /\ pos = Len(lines)
    /\ pc = "idle"
    /\ Len(yielded) = 1
    /\ yielded[1].item.tag = "Err"
    /\ yielded[1].hdr = 1
    /\ yielded[1].last = 3
    /\ IsHeader(lines[1])
    /\ Accepted(lines[2])
    /\ lines[3] = LHeaderFoo
    /\ Len(lines) = 4
    /\ IsClose(lines[4])

----------------------------------------------------------------------------
(* C20 *)

\* the methods of the Ok item y are the parsed lines after its header line
MethodsFromLinesAfter(y) ==
    LET n == IF IsClose(lines[y.last])
             THEN y.last - y.hdr - 1
             ELSE y.last - y.hdr
    IN  y.item.val.methods =
            [k \in 1..n |-> Parse(Trim(lines[y.hdr + k])).val]

\* C20: all of a header line after its first '{' is dropped: it gives no
\* method and a '}' in it does not close the block, the lines that follow
\* are read as the method lines of the block.
C20_HeaderRestDiscarded ==
    /\ [][ (pc = "outer" /\ pos < Len(lines) /\ IsHeader(lines[pos + 1])) =>
               /\ pc' = "inner"
               /\ pos' = pos + 1
               /\ hdr' = pos + 1
               /\ name' = HeaderName(lines[pos + 1])
               /\ methods' = <<>>
               /\ yielded' = yielded
               /\ ret' = ret
         ]_vars
    /\ [](\A i \in 1..Len(yielded) :
              yielded[i].item.tag = "Ok" => MethodsFromLinesAfter(yielded[i]))

C20_Witness ==
    /\ lines = <<LHeaderOneLine, LMethodBar, LClose>>
    /\ Len(yielded) = 1
    /\ yielded[1].item =
           Ok(RpcService(<<"O", "n", "e">>, <<Parse(LMethodBar).val>>))
    /\ yielded[1].hdr = 1
    /\ yielded[1].last = 3

====
